---- MODULE Spec2Model ----
(***************************************************************************)
(* Daily-Report-Automation: the processors' run() pipeline                 *)
(* (image check -> vision extraction -> OCR fallback -> dry-run return ->  *)
(* load_template -> cell writes -> save_report) and the ExcelHandler it    *)
(* drives, as a state machine.                                             *)
(*                                                                         *)
(* Numbers are held in hundredths (5.25 is 525), so sums are exact and a   *)
(* value is whole iff it is a multiple of 100.  A Python value that may be *)
(* None is a sequence: <<>> for None, <<v>> for the number v.  A Python    *)
(* dict is a function from its keys; the diagnostic keys that only carry   *)
(* reply text (raw_text, raw, source) are never read back and are left out *)
(* of the domain, and the key "error" carries no modelled message.         *)
(***************************************************************************)
EXTENDS Integers, Sequences, FiniteSets, TLC

VARIABLES
    proc,          \* the Processor subclass whose run() is executing
    dry_run,       \* run()'s dry_run argument
    env,           \* the images on disk and what the two services answer
    pc,            \* position inside run()
    idx,           \* index of the image being extracted
    parsed,        \* the field record run() builds (parsed / results / values)
    calls,         \* external calls made so far by this run
    assigned,      \* the cells assigned through excel.sheet[...] = ...
    workbook,      \* ExcelHandler.workbook (None or the sheet's cells)
    sheet,         \* ExcelHandler.sheet (None or the selected sheet's name)
    current_day,   \* ExcelHandler.current_day
    templateExists,\* whether the template file exists on disk
    fileCells,     \* the target template file's cells on disk
    tmpFile,       \* whether '.<target>.tmp' exists
    savedCopy,     \* the timestamped '.saved_' sibling file, if written
    backupFile,    \* the timestamped '.backup_' sibling file, if written
    saved,         \* run()'s local saved: what save_report returned
    result,        \* the ProcessorResult returned, once pc = "done"
    printed        \* main()'s "Result: ..." lines so far: whether each had
                   \* success=True, and the cell values those runs assigned

vars == <<proc, dry_run, env, pc, idx, parsed, calls, assigned,
          workbook, sheet, current_day, templateExists, fileCells, tmpFile,
          savedCopy, backupFile, saved, result, printed>>

(***************************************************************************)
(* Bounds of the model.                                                    *)
(***************************************************************************)
\* at most this many values are present over a run's vision and OCR replies
MaxPresent == 2
\* at most this many of: image missing, vision error, OCR error
MaxFaults == 1
\* list positions of a handwritten-lotto row that a reply may fill
MaxList == 1

(***************************************************************************)
(* Values.                                                                 *)
(***************************************************************************)
None == <<>>
Some(v) == <<v>>
\* 0, 5 and 5.25
Vals == {0, 500, 525}
\* the value every template cell holds before the run: 1.00
OldVal == Some(100)

Whole(x) == x[1] % 100 = 0

\* Python truthiness of a number-or-None: None and 0 are falsy
Truthy(x) == x # None /\ x[1] # 0

\* dict.get(k)
Get(d, k) == IF k \in DOMAIN d THEN d[k] ELSE None

EmptyDict == [k \in {} |-> None]
ErrRec == [k \in {"error"} |-> None]
IsErr(d) == "error" \in DOMAIN d

(***************************************************************************)
(* The processors, their declared fields, images and cell targets.         *)
(***************************************************************************)
Procs == {"day1_report", "day2_report", "day3_report", "handwritten",
          "lotto", "shifts", "batch", "handwritten_lotto_end"}

col_letters_26 == <<"I26", "J26", "K26", "L26", "M26", "N26", "O26", "P26",
                    "Q26", "R26", "S26", "T26", "U26", "V26", "W26", "X26",
                    "Y26", "Z26", "AA26", "AB26">>
col_letters_33 == <<"I33", "J33", "K33", "L33", "M33", "N33", "O33", "P33",
                    "Q33", "R33", "S33", "T33", "U33", "V33", "W33", "X33">>

Range(s) == {s[i] : i \in 1..Len(s)}

\* the field names a processor extracts; a handwritten-lotto value is named
\* by the cell its list position lands in
Fields(p) ==
    CASE p = "day1_report" -> {"net_sales_total", "credit", "debit"}
      [] p = "day2_report" -> {"lottery_net", "fuel_deposit", "taxable_sales", "taxes"}
      [] p = "day3_report" -> {"unleaded", "plus", "premium", "diesel"}
      [] p = "handwritten" -> {"morning", "evening", "night", "total_cash", "additional_sum"}
      [] p = "lotto" -> {"drw_gm_net_sales", "drw_gm_cashes", "scratch_cashes", "total_cashes"}
      [] p = "shifts" -> {"morning", "evening", "night"}
      [] p = "batch" -> {"value"}
      [] p = "handwritten_lotto_end" -> Range(col_letters_26) \cup Range(col_letters_33)

\* the images a run reads, in the order it reads them
ImageSeq(p) ==
    CASE p = "shifts" -> <<"morning", "evening", "night">>
      [] p = "handwritten_lotto_end" -> <<"report1", "report2">>
      [] OTHER -> <<"image">>

Images(p) == Range(ImageSeq(p))

\* a HandwrittenLottoEndProcessor that takes both rows from the first image
ImageOfPrimaryOnly(p, f) ==
    CASE p = "shifts" -> f
      [] p = "handwritten_lotto_end" -> "report1"
      [] OTHER -> "image"

\* the image a field is read from
ImageOf(p, f) ==
    CASE p = "shifts" -> f
      [] p = "handwritten_lotto_end" ->
           IF f \in Range(col_letters_26) THEN "report1" ELSE "report2"
      [] OTHER -> "image"

FieldsOf(p, img) == {f \in Fields(p) : ImageOf(p, f) = img}

\* the images whose absence makes run() return at once
RequiredImages(p) ==
    CASE p = "shifts" -> {}
      [] p = "handwritten_lotto_end" -> {"report1"}
      [] OTHER -> {"image"}

\* the cells a present field is assigned to
CellsOf(p, f) ==
    CASE p = "day1_report" ->
           (CASE f = "net_sales_total" -> {"L7"}
              [] f = "credit" -> {"I12"}
              [] f = "debit" -> {"I13"})
      [] p = "day2_report" ->
           (CASE f = "lottery_net" -> {"L6"}
              [] f = "fuel_deposit" -> {"F15"}
              [] f = "taxable_sales" -> {"F16"}
              [] f = "taxes" -> {"F17", "Z11"})
      [] p = "day3_report" ->
           (CASE f = "unleaded" -> {"F26"}
              [] f = "plus" -> {"H26"}
              [] f = "premium" -> {"G26"}
              [] f = "diesel" -> {"E26"})
      [] p = "handwritten" ->
           (CASE f = "morning" -> {"D9"}
              [] f = "evening" -> {"D11"}
              [] f = "night" -> {"D13"}
              [] f = "total_cash" -> {"L14"}
              [] f = "additional_sum" -> {"Z17"})
      [] p = "lotto" ->
           (CASE f = "drw_gm_net_sales" -> {"T30"}
              [] f = "total_cashes" -> {"Z9"}
              [] OTHER -> {})
      [] p = "shifts" ->
           (CASE f = "morning" -> {"E10"}
              [] f = "evening" -> {"E12"}
              [] f = "night" -> {"E14"})
      [] p = "batch" -> {"Z10"}
      [] p = "handwritten_lotto_end" -> {f}

Cells == UNION {UNION {CellsOf(p, f) : f \in Fields(p)} : p \in Procs}

Days == {"17", "18"}
\* the day selectors a caller passes: None (today) or a day
DayArgs == {None} \cup {Some(d) : d \in Days}
\* the sheet names of the template workbook
sheetnames == {"17"}

(***************************************************************************)
(* The environment of one run: which images exist, whether each service    *)
(* call fails, and what each reply holds for each field.                   *)
(*   json[f]  the value the reply's JSON record gives f (None: null or     *)
(*            omitted, by env.omits), for an image in hasJson              *)
(*   prose[f] the number the processor's label/number matching finds for f *)
(*            in the vision reply text outside any JSON                    *)
(*   ocr[f]   the number the same matching finds in the OCR text           *)
(***************************************************************************)
\* the processors whose vision parse looks for a JSON record
JsonProcs == {"day1_report", "day2_report", "day3_report", "handwritten",
              "lotto", "handwritten_lotto_end"}

Sources(p) ==
    CASE p = "lotto" -> {"json"}
      [] p = "day1_report" -> {"json", "ocr"}
      [] p \in {"shifts", "batch"} -> {"prose", "ocr"}
      [] OTHER -> {"json", "prose", "ocr"}

\* the fields a reply may give a value
InputFields(p) ==
    IF p = "handwritten_lotto_end"
    THEN {col_letters_26[i] : i \in 1..MaxList} \cup {col_letters_33[i] : i \in 1..MaxList}
    ELSE Fields(p)

FaultKinds(p) == IF p = "lotto" THEN {"missing", "visErr"} ELSE {"missing", "visErr", "ocrErr"}

FaultSets(p) ==
    {F \in SUBSET (FaultKinds(p) \X Images(p)) :
        /\ Cardinality(F) <= MaxFaults
        /\ \A x \in F : x[1] # "missing" => <<"missing", x[2]>> \notin F}

\* the slots a reply can fill once the faults F are fixed
UsableSlots(p, F) ==
    {x \in Sources(p) \X InputFields(p) :
        LET img == ImageOf(p, x[2]) IN
        /\ <<"missing", img>> \notin F
        /\ x[1] \in {"json", "prose"} => <<"visErr", img>> \notin F
        /\ x[1] = "ocr" => <<"ocrErr", img>> \notin F}

\* the sets of slots a run's replies fill
SlotSets(p, F) == {T \in SUBSET UsableSlots(p, F) : Cardinality(T) <= MaxPresent}

JsonChoices(p, F, S) ==
    LET answering == {img \in Images(p) : <<"missing", img>> \notin F /\ <<"visErr", img>> \notin F}
        needed == {ImageOf(p, x[2]) : x \in {y \in S : y[1] = "json"}}
    IN  IF p \in JsonProcs
        THEN {hj \in SUBSET answering : needed \subseteq hj}
        ELSE {{}}

MkEnv(p, F, a, hj, om) ==
    [configured |-> TRUE,
     exists |-> {img \in Images(p) : <<"missing", img>> \notin F},
     visErr |-> {img \in Images(p) : <<"visErr", img>> \in F},
     ocrErr |-> {img \in Images(p) : <<"ocrErr", img>> \in F},
     hasJson |-> hj,
     omits |-> om,
     json |-> [f \in Fields(p) |-> IF <<"json", f>> \in DOMAIN a THEN Some(a[<<"json", f>>]) ELSE None],
     prose |-> [f \in Fields(p) |-> IF <<"prose", f>> \in DOMAIN a THEN Some(a[<<"prose", f>>]) ELSE None],
     ocr |-> [f \in Fields(p) |-> IF <<"ocr", f>> \in DOMAIN a THEN Some(a[<<"ocr", f>>]) ELSE None]]

\* config.get("image_path") / config.get("others_dir") is unset
NoConfig(p) ==
    [configured |-> FALSE, exists |-> {}, visErr |-> {}, ocrErr |-> {},
     hasJson |-> {}, omits |-> FALSE,
     json |-> [f \in Fields(p) |-> None],
     prose |-> [f \in Fields(p) |-> None],
     ocr |-> [f \in Fields(p) |-> None]]

\* e is an environment of processor p
IsEnv(p, e) ==
    \/ e = NoConfig(p)
    \/ \E F \in FaultSets(p) : \E S \in SlotSets(p, F) : \E a \in [S -> Vals] :
          \E hj \in JsonChoices(p, F, S) :
             \E om \in (IF hj = {} THEN {FALSE} ELSE BOOLEAN) :
                e = MkEnv(p, F, a, hj, om)

(***************************************************************************)
(* Conversions.                                                            *)
(***************************************************************************)
\* _to_float on a JSON number: str(), strip "$" "," and a trailing "-",
\* float(); None stays None and a non-negative number keeps its value
ToFloat(x) == IF x = None THEN None ELSE Some(x[1])

\* int(x) on a non-negative number truncates the fraction
IntOf(x) == IF x = None THEN None ELSE Some((x[1] \div 100) * 100)

\* Python's  d.get(k) or d.get(k2) or ...  when only the first key is in
\* the record: a falsy first value (None, 0) yields the last operand, None
OrChain(x) == IF Truthy(x) THEN x ELSE None

\* BatchProcessor.run's _to_num: None counts as 0.0
ToNum(x) == IF x = None THEN 0 ELSE x[1]

\* d.update-like overlay: g's keys win
Overlay(d, g) == [k \in DOMAIN d \cup DOMAIN g |-> IF k \in DOMAIN g THEN g[k] ELSE d[k]]

(***************************************************************************)
(* Vision extraction: each processor's _extract_with_gemini on one image.  *)
(***************************************************************************)
\* generate_from_image returned {"error": ...}
VisionFailed(e, img) == img \in e.visErr

\* the keys of the JSON record in the reply
JsonKeys(p, e, img) ==
    IF e.omits THEN {f \in FieldsOf(p, img) : e.json[f] # None} ELSE FieldsOf(p, img)

\* _parse_json_from_text / re.search(r'\{.*\}') + json.loads: None when the
\* reply holds no decodable record
ParseJson(p, e, img) ==
    IF img \in e.hasJson
    THEN Some([f \in JsonKeys(p, e, img) |-> e.json[f]])
    ELSE None

\* a dict is truthy iff it is not empty
DictTruthy(j) == j # None /\ DOMAIN j[1] # {}

ProseRec(p, e, img) == [f \in FieldsOf(p, img) |-> e.prose[f]]

Day1Gemini(e) ==
    LET j == ParseJson("day1_report", e, "image") IN
    IF VisionFailed(e, "image") THEN ErrRec
    ELSE IF DictTruthy(j) THEN j[1] ELSE EmptyDict

Day2Gemini(e) ==
    LET j == ParseJson("day2_report", e, "image") IN
    IF VisionFailed(e, "image") THEN ErrRec
    ELSE IF DictTruthy(j)
         THEN [f \in Fields("day2_report") |-> ToFloat(OrChain(Get(j[1], f)))]
         ELSE ProseRec("day2_report", e, "image")

Day3Gemini(e) ==
    LET j == ParseJson("day3_report", e, "image") IN
    IF VisionFailed(e, "image") THEN ErrRec
    ELSE IF j # None
         THEN [f \in Fields("day3_report") |-> ToFloat(OrChain(Get(j[1], f)))]
         ELSE ProseRec("day3_report", e, "image")

HandwrittenGemini(e) ==
    LET j == ParseJson("handwritten", e, "image") IN
    IF VisionFailed(e, "image") THEN ErrRec
    ELSE IF j # None
         THEN [f \in Fields("handwritten") |->
                  IF f \in {"morning", "evening", "night"}
                  THEN IntOf(Get(j[1], f))
                  ELSE ToFloat(Get(j[1], f))]
         ELSE ProseRec("handwritten", e, "image")

\* LottoProcessor.run parses the reply inline; an error reply is returned
\* by run() itself
LottoGemini(e) ==
    LET j == ParseJson("lotto", e, "image") IN
    IF VisionFailed(e, "image") THEN ErrRec
    ELSE IF DictTruthy(j) THEN j[1] ELSE EmptyDict

\* {"num": _parse_number(text)}: the key is named by the shift here
ShiftGemini(e, img) ==
    IF VisionFailed(e, img) THEN ErrRec ELSE [f \in {img} |-> e.prose[f]]

\* {"value": _parse_currency_like(text)}
BatchGemini(e) ==
    IF VisionFailed(e, "image") THEN ErrRec ELSE [f \in {"value"} |-> e.prose[f]]

\* {"values": [...]}: a non-empty JSON list is normalised and padded, and
\* otherwise the values come from _extract_from_text
LottoEndGemini(e, img) ==
    LET j == ParseJson("handwritten_lotto_end", e, img)
        all == FieldsOf("handwritten_lotto_end", img)
    IN  IF VisionFailed(e, img) THEN ErrRec
        ELSE IF DictTruthy(j)
             THEN [f \in all |-> ToFloat(Get(j[1], f))]
             ELSE ProseRec("handwritten_lotto_end", e, img)

Gemini(p, e, img) ==
    CASE p = "day1_report" -> Day1Gemini(e)
      [] p = "day2_report" -> Day2Gemini(e)
      [] p = "day3_report" -> Day3Gemini(e)
      [] p = "handwritten" -> HandwrittenGemini(e)
      [] p = "lotto" -> LottoGemini(e)
      [] p = "shifts" -> ShiftGemini(e, img)
      [] p = "batch" -> BatchGemini(e)
      [] p = "handwritten_lotto_end" -> LottoEndGemini(e, img)

(***************************************************************************)
(* OCR extraction: each processor's _extract_with_ocr on one image.        *)
(***************************************************************************)
\* pytesseract raised: {"error": ...} (no field is a key of it)
Ocr(p, e, img) ==
    IF img \in e.ocrErr THEN ErrRec ELSE [f \in FieldsOf(p, img) |-> e.ocr[f]]

(***************************************************************************)
(* run(): the decisions between the calls.                                 *)
(***************************************************************************)
\* "if not image_path or not os.path.exists(image_path)"; ShiftProcessor
\* only tests others_dir
ImageMissing(p, e) == ~e.configured \/ ~(RequiredImages(p) \subseteq e.exists)

\* a run() that falls back to OCR as soon as one declared field is missing
NeedsOcrAnyMissing(p, g, img) ==
    CASE p = "day1_report" -> IsErr(g)
      [] p = "lotto" -> FALSE
      [] OTHER -> \E f \in FieldsOf(p, img) : Get(g, f) = None

\* whether run() falls back to _extract_with_ocr after the vision result g
NeedsOcr(p, g, img) ==
    CASE p = "day1_report" -> IsErr(g)
      [] p = "lotto" -> FALSE
      [] OTHER -> \A f \in FieldsOf(p, img) : Get(g, f) = None

\* "if parsed.get(k) is None: parsed[k] = ocr.get(k)" over the declared keys
MergeMissing(d, o, F) ==
    [k \in DOMAIN d \cup F |-> IF k \in F /\ Get(d, k) = None THEN Get(o, k) ELSE d[k]]

\* HandwrittenProcessor.run: a whole vision value gives way to a fractional
\* OCR value
ReconcileField(pv, ov) ==
    IF pv # None /\ ov # None /\ Whole(pv) /\ ~Whole(ov) THEN ov ELSE pv

HandwrittenMerge(d, o) ==
    LET m == MergeMissing(d, o, Fields("handwritten")) IN
    [k \in DOMAIN m |->
        IF k \in {"total_cash", "additional_sum"}
        THEN ReconcileField(m[k], Get(o, k))
        ELSE m[k]]

\* the record before the first image is read
InitialParsed(p) ==
    IF p = "shifts" THEN [f \in Fields("shifts") |-> None] ELSE EmptyDict

\* the record once the vision result g of image img is in
AfterVision(p, d, g, img) ==
    CASE p = "shifts" -> IF Get(g, img) # None THEN [d EXCEPT ![img] = g[img]] ELSE d
      [] p = "batch" -> [f \in {"value"} |-> Get(g, f)]
      [] p = "handwritten_lotto_end" ->
           Overlay(d, [f \in FieldsOf(p, img) |-> Get(g, f)])
      [] OTHER -> g

\* the record once the OCR result o of image img is in
AfterOcr(p, d, o, img) ==
    CASE p = "day1_report" -> o
      [] p \in {"day2_report", "day3_report"} -> MergeMissing(d, o, Fields(p))
      [] p = "handwritten" -> HandwrittenMerge(d, o)
      [] p = "shifts" -> IF Get(o, img) # None THEN [d EXCEPT ![img] = o[img]] ELSE d
      [] p = "batch" -> [f \in {"value"} |-> Get(o, f)]
      [] p = "handwritten_lotto_end" ->
           Overlay(d, [f \in FieldsOf(p, img) |-> Get(o, f)])

\* ProcessorResult(name, success, details)
Result(ok, err, rec) == [success |-> ok, error |-> err, record |-> rec]
NoResult == Result(FALSE, "", EmptyDict)

\* a write phase that assigns only truthy values
WritesTruthy(p, d, cur) ==
    LET present == {f \in Fields(p) : Truthy(Get(d, f))}
        target == UNION {CellsOf(p, f) : f \in present}
    IN  [c \in target |-> d[CHOOSE f \in present : c \in CellsOf(p, f)]]

\* the cell assignments of the write phase, as cell -> value, over the
\* loaded sheet's cells c; cur is what BatchProcessor read back from Z10
Writes(p, d, cur) ==
    CASE p = "lotto" ->
           LET net == Get(d, "drw_gm_net_sales")
               drw == Get(d, "drw_gm_cashes")
               scratch == Get(d, "scratch_cashes")
               total == Get(d, "total_cashes")
               t30 == IF net # None THEN [c \in {"T30"} |-> net] ELSE EmptyDict
               z9 == IF total # None THEN [c \in {"Z9"} |-> total]
                     ELSE IF drw # None /\ scratch # None
                          THEN [c \in {"Z9"} |-> Some(drw[1] + scratch[1])]
                          ELSE EmptyDict
           IN  Overlay(t30, z9)
      [] p = "batch" -> [c \in {"Z10"} |-> Some(ToNum(cur) + d["value"][1])]
      [] OTHER ->
           LET present == {f \in Fields(p) : Get(d, f) # None}
               target == UNION {CellsOf(p, f) : f \in present}
           IN  [c \in target |-> d[CHOOSE f \in present : c \in CellsOf(p, f)]]

(***************************************************************************)
(* ExcelHandler (handlers/excel_handler.py).                               *)
(***************************************************************************)
\* a load_template that returns True once the workbook is read, whatever
\* sheet is asked for
load_template_any_sheet(day, today, exists, onDisk, wb, sh, cur) ==
    LET name == IF day = None THEN today ELSE day[1] IN
    IF ~exists
    THEN [ok |-> FALSE, workbook |-> wb, sheet |-> sh, current_day |-> cur]
    ELSE [ok |-> TRUE, workbook |-> Some(onDisk), sheet |-> Some(name),
          current_day |-> Some(name)]

\* load_template(specific_day) on today's date: the handler fields after
\* the call and the value returned
load_template(day, today, exists, onDisk, wb, sh, cur) ==
    LET name == IF day = None THEN today ELSE day[1] IN
    IF ~exists
    THEN [ok |-> FALSE, workbook |-> wb, sheet |-> sh, current_day |-> cur]
    ELSE IF name \in sheetnames
         THEN [ok |-> TRUE, workbook |-> Some(onDisk), sheet |-> Some(name),
               current_day |-> Some(name)]
         ELSE [ok |-> FALSE, workbook |-> Some(onDisk), sheet |-> sh,
               current_day |-> Some(name)]

\* what the file system does to one save_report call: whether each
\* workbook.save succeeds, and how os.replace / os.remove end
\* (a choice that the call never consults is fixed, so that each way
\* through the call is drawn once)
SaveOutcomes(given) ==
    {o \in [backup : BOOLEAN, tmp : {"ok", "perm", "err"}, rep : {"ok", "perm", "err"},
            rm : BOOLEAN, fb : BOOLEAN] :
        /\ given => o.backup
        /\ o.tmp # "ok" => o.rep = "ok"
        /\ ~(o.tmp = "ok" /\ o.rep = "perm") => o.rm
        /\ (o.tmp = "ok" /\ o.rep = "ok") => o.fb}

\* a save_report that reports True although nothing could be written
save_report_swallow(wb, given, make_backup, o, disk) ==
    IF wb # None /\ o.tmp = "ok" /\ o.rep = "ok"
    THEN [saved |-> TRUE, fileCells |-> wb[1], tmpFile |-> FALSE,
          savedCopy |-> disk.savedCopy, backupFile |-> disk.backupFile]
    ELSE [saved |-> TRUE, fileCells |-> disk.fileCells, tmpFile |-> disk.tmpFile,
          savedCopy |-> IF wb # None /\ o.fb THEN wb ELSE disk.savedCopy,
          backupFile |-> disk.backupFile]

\* a save_report that gives up when os.replace raises PermissionError
save_report_no_fallback(wb, given, make_backup, o, disk) ==
    IF wb # None /\ o.tmp = "ok" /\ o.rep = "ok"
    THEN [saved |-> TRUE, fileCells |-> wb[1], tmpFile |-> FALSE,
          savedCopy |-> disk.savedCopy, backupFile |-> disk.backupFile]
    ELSE [saved |-> FALSE, fileCells |-> disk.fileCells, tmpFile |-> disk.tmpFile,
          savedCopy |-> disk.savedCopy, backupFile |-> disk.backupFile]

\* save_report(filename, make_backup): the value returned and the files
\* after the call; given says whether a filename was passed
save_report(wb, given, make_backup, o, disk) ==
    LET backed == IF ~given /\ make_backup /\ o.backup THEN wb ELSE disk.backupFile
        fallback(tmpLeft) ==
            [saved |-> o.fb, fileCells |-> disk.fileCells, tmpFile |-> tmpLeft,
             savedCopy |-> IF o.fb THEN wb ELSE disk.savedCopy, backupFile |-> backed]
    IN  IF wb = None
        THEN [saved |-> FALSE, fileCells |-> disk.fileCells, tmpFile |-> disk.tmpFile,
              savedCopy |-> disk.savedCopy, backupFile |-> disk.backupFile]
        ELSE IF o.tmp = "ok"
             THEN IF o.rep = "ok"
                  THEN [saved |-> TRUE, fileCells |-> wb[1], tmpFile |-> FALSE,
                        savedCopy |-> disk.savedCopy, backupFile |-> backed]
                  ELSE IF o.rep = "perm"
                       THEN fallback(~o.rm)
                       ELSE fallback(TRUE)
             ELSE fallback(disk.tmpFile)

Disk == [fileCells |-> fileCells, tmpFile |-> tmpFile, savedCopy |-> savedCopy,
         backupFile |-> backupFile]

(***************************************************************************)
(* run(specific_day, dry_run) of the processors, step by step.             *)
(***************************************************************************)
NothingPrinted == [ok |-> TRUE, cells |-> EmptyDict]

\* nothing has run yet: the handler is fresh and the template is on disk
InitRun ==
    /\ pc = "start"
    /\ idx = 1
    /\ parsed = EmptyDict
    /\ calls = [vision |-> {}, ocr |-> {}, load |-> 0, save |-> 0]
    /\ assigned = {}
    /\ workbook = None
    /\ sheet = None
    /\ current_day = None
    /\ templateExists = TRUE
    /\ fileCells = [c \in Cells |-> OldVal]
    /\ tmpFile = FALSE
    /\ savedCopy = None
    /\ backupFile = None
    /\ saved = None
    /\ result = NoResult
    /\ printed = NothingPrinted

Init ==
    /\ proc \in Procs
    /\ dry_run \in BOOLEAN
    /\ IsEnv(proc, env)
    /\ InitRun

excelVars == <<workbook, sheet, current_day>>
diskVars == <<templateExists, fileCells, tmpFile, savedCopy, backupFile>>
\* what the caller of run() holds
argVars == <<proc, dry_run, env, printed>>
\* what only the write phase touches
writeVars == <<assigned, saved>>

\* the image i is done: on to the next image, or out of the extraction
NextPc(p, i) == IF i < Len(ImageSeq(p)) THEN "vision" ELSE "decide"
NextIdx(p, i) == IF i < Len(ImageSeq(p)) THEN i + 1 ELSE i

\* the image check at the top of run()
CheckImage ==
    /\ pc = "start"
    /\ IF ImageMissing(proc, env)
       THEN /\ result' = Result(FALSE,
                                IF proc = "shifts" THEN "others_dir missing" ELSE "image missing",
                                EmptyDict)
            /\ pc' = "done"
            /\ UNCHANGED parsed
       ELSE /\ pc' = "vision"
            /\ parsed' = InitialParsed(proc)
            /\ UNCHANGED result
    /\ UNCHANGED <<argVars, idx, calls, writeVars, excelVars, diskVars>>

\* an optional image is not on disk: ShiftProcessor's "continue", and
\* HandwrittenLottoEndProcessor's absent Handwritten_Report2.jpg
SkipImage ==
    /\ pc = "vision"
    /\ ImageSeq(proc)[idx] \notin env.exists
    /\ pc' = NextPc(proc, idx)
    /\ idx' = NextIdx(proc, idx)
    /\ UNCHANGED <<argVars, parsed, calls, writeVars, excelVars, diskVars, result>>

\* the vision call on the current image and the parse of its reply
Vision ==
    /\ pc = "vision"
    /\ LET img == ImageSeq(proc)[idx]
           g == Gemini(proc, env, img)
       IN  /\ img \in env.exists
           /\ calls' = [calls EXCEPT !.vision = @ \cup {img}]
           /\ IF proc = "lotto" /\ IsErr(g)
              THEN /\ result' = Result(FALSE, "vision error", EmptyDict)
                   /\ pc' = "done"
                   /\ UNCHANGED <<parsed, idx>>
              ELSE /\ parsed' = AfterVision(proc, parsed, g, img)
                   /\ UNCHANGED result
                   /\ IF NeedsOcr(proc, g, img)
                      THEN pc' = "ocr" /\ UNCHANGED idx
                      ELSE pc' = NextPc(proc, idx) /\ idx' = NextIdx(proc, idx)
    /\ UNCHANGED <<argVars, writeVars, excelVars, diskVars>>

\* the OCR fallback on the current image
OcrFallback ==
    /\ pc = "ocr"
    /\ LET img == ImageSeq(proc)[idx]
           o == Ocr(proc, env, img)
       IN  /\ calls' = [calls EXCEPT !.ocr = @ \cup {img}]
           /\ parsed' = AfterOcr(proc, parsed, o, img)
    /\ pc' = NextPc(proc, idx)
    /\ idx' = NextIdx(proc, idx)
    /\ UNCHANGED <<argVars, writeVars, excelVars, diskVars, result>>

\* BatchProcessor: "if extracted_val is None: return ... EBT not found"
NoValue(p, d) == p = "batch" /\ Get(d, "value") = None

NoValueReturn ==
    /\ pc = "decide"
    /\ NoValue(proc, parsed)
    /\ result' = Result(FALSE, "EBT not found", EmptyDict)
    /\ pc' = "done"
    /\ UNCHANGED <<argVars, idx, parsed, calls, writeVars, excelVars, diskVars>>

\* a run that never takes the dry_run return
ReturnsDryNever(dry) == FALSE

\* "if dry_run: return ProcessorResult(NAME, True, {"parsed": parsed})"
ReturnsDry(dry) == dry

DryRunReturn ==
    /\ pc = "decide"
    /\ ~NoValue(proc, parsed)
    /\ ReturnsDry(dry_run)
    /\ result' = Result(TRUE, "", parsed)
    /\ pc' = "done"
    /\ UNCHANGED <<argVars, idx, parsed, calls, writeVars, excelVars, diskVars>>

\* "if not self.excel.load_template(specific_day): return ... False", with
\* run()'s specific_day argument drawn here, where it is first read, and
\* the template file present or gone by the time of the call
LoadTemplate ==
    /\ pc = "decide"
    /\ ~NoValue(proc, parsed)
    /\ ~ReturnsDry(dry_run)
    /\ \E day \in DayArgs, today \in Days, exists \in BOOLEAN :
         LET r == load_template(day, today, exists, fileCells,
                                workbook, sheet, current_day)
         IN  /\ templateExists' = exists
             /\ workbook' = r.workbook
             /\ sheet' = r.sheet
             /\ current_day' = r.current_day
             /\ IF r.ok
                THEN pc' = "write" /\ UNCHANGED result
                ELSE /\ pc' = "done"
                     /\ result' = Result(FALSE, "could not load template", EmptyDict)
    /\ calls' = [calls EXCEPT !.load = @ + 1]
    /\ UNCHANGED <<argVars, idx, parsed, writeVars, fileCells, tmpFile, savedCopy, backupFile>>

\* a JSON value that is an array or an object
Nested == <<0, 0>>

\* openpyxl takes numbers, strings, booleans and dates as a cell value; the
\* assignment of a list or dict raises ValueError
Raises(w) == \E c \in DOMAIN w : w[c] = Nested

\* the assignments self.excel.sheet[cell] = value; no statement of run()
\* catches an assignment that raises, and run() ends there without a result
WriteCells ==
    /\ pc = "write"
    /\ \E cur \in {workbook[1]["Z10"], None} :
         LET w == Writes(proc, parsed, cur) IN
         IF Raises(w)
         THEN pc' = "raised" /\ UNCHANGED <<assigned, workbook>>
         ELSE /\ assigned' = DOMAIN w
              /\ workbook' = Some(Overlay(workbook[1], w))
              /\ pc' = "save"
    /\ UNCHANGED <<argVars, idx, parsed, calls, sheet, current_day, diskVars, saved, result>>

\* a run that reports success whatever save_report returned
SavedIgnored(ok, d) == Result(TRUE, "", d)

\* a run that reports the opposite of what save_report returned
SavedNegated(ok, d) == Result(~ok, "", d)

\* the result run() builds from save_report's return value
SavedResult(ok, d) == Result(ok, "", d)

\* "saved = self.excel.save_report(self.excel.template_path)" and the return
SaveReport ==
    /\ pc = "save"
    /\ \E o \in SaveOutcomes(TRUE) :
         LET r == save_report(workbook, TRUE, TRUE, o, Disk) IN
         /\ fileCells' = r.fileCells
         /\ tmpFile' = r.tmpFile
         /\ savedCopy' = r.savedCopy
         /\ backupFile' = r.backupFile
         /\ saved' = Some(r.saved)
         /\ result' = SavedResult(r.saved, parsed)
    /\ calls' = [calls EXCEPT !.save = @ + 1]
    /\ pc' = "done"
    /\ UNCHANGED <<argVars, idx, parsed, assigned, excelVars, templateExists>>

Next ==
    \/ CheckImage
    \/ SkipImage
    \/ Vision
    \/ OcrFallback
    \/ NoValueReturn
    \/ DryRunReturn
    \/ LoadTemplate
    \/ WriteCells
    \/ SaveReport

Spec == Init /\ [][Next]_vars

(***************************************************************************)
(* The standalone lotto scripts at the top of src/:                        *)
(* GeminiVisionHandler.extract_lotto_data (gemini_vision_handler.py) and   *)
(* CompleteLottoProcessor (complete_lotto_processor.py), which drives the  *)
(* ExcelHandler of src/excel_handler.py.                                   *)
(***************************************************************************)
LegacyProcs == {"gemini_vision_handler", "complete_lotto"}

LottoFields == Fields("lotto")

\* one reply: a JSON record over the four lotto keys (null or a number
\* each), a reply without JSON, a failed call, or an image that is not there
LegacyEnvs ==
    LET base == NoConfig("lotto")
        replies == [LottoFields -> {None} \cup {Some(v) : v \in Vals}]
    IN  {[base EXCEPT !.configured = TRUE, !.exists = {"image"}, !.hasJson = {"image"},
                      !.json = j] : j \in replies}
        \cup {[base EXCEPT !.configured = TRUE, !.exists = {"image"}],
              [base EXCEPT !.configured = TRUE, !.exists = {"image"}, !.visErr = {"image"}],
              [base EXCEPT !.configured = TRUE]}

\* GeminiVisionHandler.extract_lotto_data: the total is computed from the
\* two cashes when the record's total_cashes is in (None, "", 0)
GeminiVision_extract_lotto_data(e) ==
    LET j == ParseJson("lotto", e, "image") IN
    IF "image" \notin e.exists \/ VisionFailed(e, "image") \/ ~DictTruthy(j)
    THEN ErrRec
    ELSE LET d == j[1] IN
         IF d["drw_gm_cashes"] # None /\ d["scratch_cashes"] # None
            /\ (d["total_cashes"] = None \/ d["total_cashes"] = Some(0))
         THEN [d EXCEPT !["total_cashes"] = Some(d["drw_gm_cashes"][1] + d["scratch_cashes"][1])]
         ELSE d

\* CompleteLottoProcessor.extract_lotto_data: None (here the empty dict,
\* which the caller's "if not extracted_data" treats alike) when the call
\* fails or no JSON is found; the total is computed when both cashes are
\* truthy and the record's total_cashes is falsy
CompleteLotto_extract_lotto_data(e) ==
    LET j == ParseJson("lotto", e, "image") IN
    IF "image" \notin e.exists \/ VisionFailed(e, "image") \/ j = None
    THEN EmptyDict
    ELSE LET d == j[1] IN
         IF Truthy(d["drw_gm_cashes"]) /\ Truthy(d["scratch_cashes"])
            /\ ~Truthy(d["total_cashes"])
         THEN [d EXCEPT !["total_cashes"] = Some(d["drw_gm_cashes"][1] + d["scratch_cashes"][1])]
         ELSE d

\* process_lotto_report_to_excel, step 3: T30 and Z9 are assigned when the
\* values are truthy
CompleteLottoWrites(d) ==
    LET t30 == IF Truthy(Get(d, "drw_gm_net_sales"))
               THEN [c \in {"T30"} |-> d["drw_gm_net_sales"]] ELSE EmptyDict
        z9 == IF Truthy(Get(d, "total_cashes"))
              THEN [c \in {"Z9"} |-> d["total_cashes"]] ELSE EmptyDict
    IN  Overlay(t30, z9)

\* ExcelHandler.load_template of src/excel_handler.py: load_workbook raises
\* when the file is not there
legacy_load_template(day, today, exists, onDisk, wb, sh, cur) ==
    LET name == IF day # None THEN day[1] ELSE today IN
    IF ~exists
    THEN [ok |-> FALSE, workbook |-> wb, sheet |-> sh, current_day |-> cur]
    ELSE IF name \in sheetnames
         THEN [ok |-> TRUE, workbook |-> Some(onDisk), sheet |-> Some(name),
               current_day |-> Some(name)]
         ELSE [ok |-> FALSE, workbook |-> Some(onDisk), sheet |-> sh,
               current_day |-> Some(name)]

\* ExcelHandler.save_report of src/excel_handler.py: workbook.save straight
\* onto the file; written says whether the save went through
legacy_save_report(wb, written, onDisk) ==
    IF written THEN [saved |-> TRUE, fileCells |-> wb[1]]
    ELSE [saved |-> FALSE, fileCells |-> onDisk]

InitLegacy ==
    /\ proc \in LegacyProcs
    /\ dry_run = FALSE
    /\ env \in LegacyEnvs
    /\ InitRun

\* extract_lotto_data on the image; GeminiVisionHandler's caller only gets
\* the record back
LegacyExtract ==
    /\ pc = "start"
    /\ calls' = [calls EXCEPT !.vision = IF "image" \in env.exists THEN {"image"} ELSE {}]
    /\ IF proc = "gemini_vision_handler"
       THEN LET d == GeminiVision_extract_lotto_data(env) IN
            /\ parsed' = d
            /\ result' = Result(~IsErr(d), "", d)
            /\ pc' = "done"
       ELSE LET d == CompleteLotto_extract_lotto_data(env) IN
            /\ parsed' = d
            /\ IF d = EmptyDict
               THEN pc' = "done" /\ result' = Result(FALSE, "no data", d)
               ELSE pc' = "decide" /\ UNCHANGED result
    /\ UNCHANGED <<argVars, idx, writeVars, excelVars, diskVars>>

\* process_lotto_report_to_excel, step 2: the day defaults to yesterday's
LegacyLoad ==
    /\ pc = "decide"
    /\ \E day \in DayArgs, yesterday \in Days, today \in Days, exists \in BOOLEAN :
         LET r == legacy_load_template(IF day = None THEN Some(yesterday) ELSE day,
                                       today, exists, fileCells,
                                       workbook, sheet, current_day)
         IN  /\ templateExists' = exists
             /\ workbook' = r.workbook
             /\ sheet' = r.sheet
             /\ current_day' = r.current_day
             /\ IF r.ok
                THEN pc' = "write" /\ UNCHANGED result
                ELSE /\ pc' = "done"
                     /\ result' = Result(FALSE, "could not load template", EmptyDict)
    /\ calls' = [calls EXCEPT !.load = @ + 1]
    /\ UNCHANGED <<argVars, idx, parsed, writeVars, fileCells, tmpFile, savedCopy, backupFile>>

\* process_lotto_report_to_excel, step 3
LegacyWrite ==
    /\ pc = "write"
    /\ LET w == CompleteLottoWrites(parsed) IN
       /\ assigned' = DOMAIN w
       /\ workbook' = Some(Overlay(workbook[1], w))
    /\ pc' = "save"
    /\ UNCHANGED <<argVars, idx, parsed, calls, sheet, current_day, diskVars, saved, result>>

\* process_lotto_report_to_excel, step 4: save onto the template path
LegacySave ==
    /\ pc = "save"
    /\ \E written \in BOOLEAN :
         LET r == legacy_save_report(workbook, written, fileCells) IN
         /\ fileCells' = r.fileCells
         /\ saved' = Some(r.saved)
         /\ result' = Result(r.saved, "", parsed)
    /\ calls' = [calls EXCEPT !.save = @ + 1]
    /\ pc' = "done"
    /\ UNCHANGED <<argVars, idx, parsed, assigned, excelVars, templateExists,
                   tmpFile, savedCopy, backupFile>>

NextLegacy ==
    \/ LegacyExtract
    \/ LegacyLoad
    \/ LegacyWrite
    \/ LegacySave

SpecLegacy == InitLegacy /\ [][NextLegacy]_vars

(***************************************************************************)
(* ExcelHandler on its own: any sequence of load_template, cell            *)
(* assignment and save_report calls on one handler.  env is what the file  *)
(* system does to the save_report calls of the run, pc names the last      *)
(* call, idx counts the calls, and result holds what the last call gave:   *)
(* load_template's value, or the result a run() builds from save_report's. *)
(***************************************************************************)
\* at most this many handler calls in a run
MaxOps == 3

\* the cells the caller assigns
HandlerCells == {"L7", "Z10"}

InitHandler ==
    /\ proc = "excel_handler"
    /\ dry_run = FALSE
    /\ env \in SaveOutcomes(FALSE)
    /\ InitRun

\* handler.load_template(day)
HLoad ==
    /\ idx <= MaxOps
    /\ \E day \in DayArgs, today \in Days, exists \in BOOLEAN :
         LET r == load_template(day, today, exists, fileCells,
                                workbook, sheet, current_day)
         IN  /\ templateExists' = exists
             /\ workbook' = r.workbook
             /\ sheet' = r.sheet
             /\ current_day' = r.current_day
             /\ result' = Result(r.ok, "", EmptyDict)
    /\ calls' = [calls EXCEPT !.load = @ + 1]
    /\ pc' = "load_template"
    /\ idx' = idx + 1
    /\ UNCHANGED <<argVars, parsed, writeVars, fileCells, tmpFile, savedCopy, backupFile>>

\* handler.sheet[c] = v, on the sheet of the loaded workbook
HAssign ==
    /\ idx <= MaxOps
    /\ sheet # None /\ sheet = current_day
    /\ \E c \in HandlerCells, v \in Vals :
         /\ workbook' = Some([workbook[1] EXCEPT ![c] = Some(v)])
         /\ assigned' = assigned \cup {c}
    /\ pc' = "assign"
    /\ idx' = idx + 1
    /\ UNCHANGED <<argVars, parsed, calls, sheet, current_day, diskVars, saved, result>>

\* handler.save_report(filename, make_backup)
HSave ==
    /\ idx <= MaxOps
    /\ \E given \in BOOLEAN, make_backup \in BOOLEAN :
         LET r == save_report(workbook, given, make_backup, env, Disk) IN
         /\ fileCells' = r.fileCells
         /\ tmpFile' = r.tmpFile
         /\ savedCopy' = r.savedCopy
         /\ backupFile' = r.backupFile
         /\ saved' = Some(r.saved)
         /\ result' = SavedResult(r.saved, parsed)
    /\ calls' = [calls EXCEPT !.save = @ + 1]
    /\ pc' = "save_report"
    /\ idx' = idx + 1
    /\ UNCHANGED <<argVars, parsed, assigned, excelVars, templateExists>>

NextHandler ==
    \/ HLoad
    \/ HAssign
    \/ HSave

SpecHandler == InitHandler /\ [][NextHandler]_vars

(***************************************************************************)
(* runner.py: main() builds one GeminiVisionHandler and one ExcelHandler,  *)
(* hands both to the seven processors and calls run() on each in turn.     *)
(* proc is the processor whose run() is under way and env what that run    *)
(* meets; calls counts the calls of the run under way; the handler fields  *)
(* and the files carry over from one run to the next.  The template file   *)
(* is there or not for the whole of main(), and --day is one argument, so  *)
(* every load_template of a main() resolves the same day.                  *)
(***************************************************************************)
processors == <<"day1_report", "day2_report", "day3_report", "handwritten",
                "lotto", "shifts", "batch">>

Pos(p) == CHOOSE i \in 1..Len(processors) : processors[i] = p

\* the field whose value the replies of a run of main() carry
RunnerField(p) ==
    CASE p = "day1_report" -> "net_sales_total"
      [] p = "day2_report" -> "lottery_net"
      [] p = "day3_report" -> "unleaded"
      [] p = "handwritten" -> "total_cash"
      [] p = "lotto" -> "drw_gm_net_sales"
      [] p = "shifts" -> "evening"
      [] p = "batch" -> "value"

\* what a processor's run meets under main(): a reply with 5.25 for one
\* field; every image missing; the vision call and the OCR both failing;
\* for ShiftProcessor the images before the field's missing; and, for the
\* two processors that write JSON values as they come, a reply whose value
\* is an array
RunnerEnvs(p) ==
    LET f == RunnerField(p)
        src == IF p \in JsonProcs THEN "json" ELSE "prose"
        hj == IF p \in JsonProcs THEN Images(p) ELSE {}
        none == [x \in {} |-> 0]
        reply == MkEnv(p, {}, [x \in {<<src, f>>} |-> 525], hj, FALSE)
    IN  {reply,
         MkEnv(p, {"missing"} \X Images(p), none, {}, FALSE),
         MkEnv(p, FaultKinds(p) \X Images(p) \ ({"missing"} \X Images(p)), none, {}, FALSE)}
        \cup (IF p = "shifts"
              THEN {MkEnv(p, {<<"missing", "morning">>}, [x \in {<<src, f>>} |-> 525], hj, FALSE)}
              ELSE {})
        \cup (IF p \in {"day1_report", "lotto"}
              THEN {[reply EXCEPT !.json[f] = Nested]}
              ELSE {})

InitRunner ==
    /\ proc = processors[1]
    /\ dry_run \in BOOLEAN
    /\ env \in RunnerEnvs(proc)
    /\ templateExists \in BOOLEAN
    /\ pc = "start"
    /\ idx = 1
    /\ parsed = EmptyDict
    /\ calls = [vision |-> {}, ocr |-> {}, load |-> 0, save |-> 0]
    /\ assigned = {}
    /\ workbook = None
    /\ sheet = None
    /\ current_day = None
    /\ fileCells = [c \in Cells |-> OldVal]
    /\ tmpFile = FALSE
    /\ savedCopy = None
    /\ backupFile = None
    /\ saved = None
    /\ result = NoResult
    /\ printed = NothingPrinted

\* load_template inside a run of main()
RunnerLoad ==
    /\ LoadTemplate
    /\ templateExists' = templateExists
    /\ current_day # None => current_day' = current_day

\* "for p in processors": run() has returned res, the loop goes on to the
\* next processor
NextProcessor ==
    /\ pc = "done"
    /\ Pos(proc) < Len(processors)
    /\ printed' = [ok |-> printed.ok /\ result.success,
                   cells |-> IF result.success
                             THEN Overlay(printed.cells, [c \in assigned |-> workbook[1][c]])
                             ELSE printed.cells]
    /\ proc' = processors[Pos(proc) + 1]
    /\ env' \in RunnerEnvs(proc')
    /\ pc' = "start"
    /\ idx' = 1
    /\ parsed' = EmptyDict
    /\ calls' = [vision |-> {}, ocr |-> {}, load |-> 0, save |-> 0]
    /\ assigned' = {}
    /\ saved' = None
    /\ result' = NoResult
    /\ UNCHANGED <<dry_run, excelVars, diskVars>>

NextRunner ==
    \/ CheckImage
    \/ SkipImage
    \/ Vision
    \/ OcrFallback
    \/ NoValueReturn
    \/ DryRunReturn
    \/ RunnerLoad
    \/ WriteCells
    \/ SaveReport
    \/ NextProcessor

SpecRunner == InitRunner /\ [][NextRunner]_vars

(***************************************************************************)
(* GeminiVisionHandler.generate_from_image (handlers/gemini_handler.py).   *)
(* env holds the handler's max_retries, whether Image.open succeeds, and   *)
(* what each successive generate_content call does; idx is the loop's      *)
(* attempt, calls.vision the attempts at which the model was called, and   *)
(* result the dict returned.                                               *)
(***************************************************************************)
MaxRetries == 3

\* what one generate_content call does: it returns text, or raises
\*   quota_429            "429 Quota exceeded ...": the service's rate limit
\*   api_key_invalid      "API key not valid ...": not a rate limit
\*   not_found_generateContent
\*                        "404 models/... is not found ... or is not supported
\*                        for generateContent": not a rate limit
Replies == {"text", "quota_429", "api_key_invalid", "not_found_generateContent"}

\* the call raised because of the service's rate limit or quota
IsRateLimitError(k) == k = "quota_429"

\* "quota" in err_text or "rate" in err_text or "429" in err_text or
\* "exceeded" in err_text, on the lower-cased message: "generatecontent"
\* contains "rate"
MatchesRateLimit(k) == k \in {"quota_429", "not_found_generateContent"}

GeminiEnvs ==
    [max_retries : 0..MaxRetries, opens : BOOLEAN,
     replies : [1..MaxRetries -> Replies]]

TextRec == [k \in {"text"} |-> None]

InitGemini ==
    /\ proc = "gemini_handler"
    /\ dry_run = FALSE
    /\ env \in GeminiEnvs
    /\ InitRun

geminiFrame == <<argVars, parsed, writeVars, excelVars, diskVars>>

\* "image = Image.open(image_path)", and the entry into the loop
OpenImage ==
    /\ pc = "start"
    /\ IF env.opens
       THEN pc' = "attempt" /\ UNCHANGED result
       ELSE pc' = "returned" /\ result' = ErrRec
    /\ UNCHANGED <<geminiFrame, idx, calls>>

\* one pass of "for attempt in range(1, self.max_retries + 1)"
Attempt ==
    /\ pc = "attempt"
    /\ idx <= env.max_retries
    /\ calls' = [calls EXCEPT !.vision = @ \cup {idx}]
    /\ LET k == env.replies[idx] IN
       IF k = "text"
       THEN pc' = "returned" /\ result' = TextRec
       ELSE IF MatchesRateLimit(k) /\ idx < env.max_retries
            THEN pc' = "sleep" /\ UNCHANGED result
            ELSE pc' = "returned" /\ result' = ErrRec
    /\ UNCHANGED <<geminiFrame, idx>>

\* "time.sleep(backoff); continue"
Backoff ==
    /\ pc = "sleep"
    /\ idx' = idx + 1
    /\ pc' = "attempt"
    /\ UNCHANGED <<geminiFrame, calls, result>>

\* the loop ran out: return {"error": "Max retries exceeded"}
Exhausted ==
    /\ pc = "attempt"
    /\ idx > env.max_retries
    /\ pc' = "returned"
    /\ result' = ErrRec
    /\ UNCHANGED <<geminiFrame, idx, calls>>

NextGemini == OpenImage \/ Attempt \/ Backoff \/ Exhausted

SpecGemini == InitGemini /\ [][NextGemini]_vars

(***************************************************************************)
(* The numeric normalisers: _to_float of HandwrittenProcessor,             *)
(* BatchProcessor, Day2ReportProcessor and Day3ReportProcessor, and        *)
(* _to_number of HandwrittenLottoEndProcessor.  A token is a sequence of   *)
(* characters; a float is an integer count of 1/Scale; env is the token,   *)
(* proc the processor whose normaliser is applied, result.record the       *)
(* value returned.                                                         *)
(***************************************************************************)
MaxTok == 3

Scale == 10 ^ (MaxTok + 1)

Digits == {"1", "5"}
Chars == Digits \cup {"$", ",", "(", ")", "-", "+", ".", " "}

Tokens == UNION {[1..n -> Chars] : n \in 0..MaxTok}

DigitVal(c) == IF c = "1" THEN 1 ELSE 5

\* str.replace(ch, "") for each ch of X
Remove(t, X) == SelectSeq(t, LAMBDA c : c \notin X)

\* str.rstrip(ch), str.lstrip(ch)
RECURSIVE RStrip(_, _)
RStrip(t, ch) ==
    IF t # <<>> /\ t[Len(t)] = ch THEN RStrip(SubSeq(t, 1, Len(t) - 1), ch) ELSE t

RECURSIVE LStrip(_, _)
LStrip(t, ch) == IF t # <<>> /\ Head(t) = ch THEN LStrip(Tail(t), ch) ELSE t

\* str.strip()
Strip(t) == LStrip(RStrip(t, " "), " ")

\* the digits d1 d2 ... as an integer
RECURSIVE IntVal(_)
IntVal(t) == IF t = <<>> THEN 0 ELSE 10 * IntVal(SubSeq(t, 1, Len(t) - 1)) + DigitVal(t[Len(t)])

\* digits with at most one ".": the number they spell, in 1/Scale
Unsigned(t) ==
    LET dots == {i \in 1..Len(t) : t[i] = "."}
        d == IF dots = {} THEN Len(t) + 1 ELSE CHOOSE i \in dots : TRUE
        whole == SubSeq(t, 1, d - 1)
        frac == SubSeq(t, d + 1, Len(t))
    IN  IF /\ \A i \in 1..Len(t) : t[i] \in Digits \cup {"."}
           /\ Cardinality(dots) <= 1
           /\ Len(whole) + Len(frac) > 0
        THEN Some(IntVal(whole) * Scale + IntVal(frac) * 10 ^ (MaxTok + 1 - Len(frac)))
        ELSE None

\* float(s) on a string: surrounding blanks and one sign are accepted;
\* None stands for the ValueError
PyFloat(t) ==
    LET u == Strip(t)
        signed == u # <<>> /\ Head(u) \in {"-", "+"}
        body == IF signed THEN Tail(u) ELSE u
        v == Unsigned(body)
    IN  IF v = None THEN None
        ELSE IF signed /\ Head(u) = "-" THEN Some(0 - v[1]) ELSE v

\* the match of -?\d+(?:\.\d+)? that begins at position i (<<>> if none)
MatchAt(t, i) ==
    LET neg == i <= Len(t) /\ t[i] = "-"
        RunEnd(j) ==   \* the last index of the run of digits that begins at j
            CHOOSE k \in (j - 1)..Len(t) :
                /\ \A m \in j..k : t[m] \in Digits
                /\ k = Len(t) \/ t[k + 1] \notin Digits
        From(j) ==     \* the match of \d+(?:\.\d+)? that begins at j
            LET e == RunEnd(j) IN
            IF e < j THEN <<>>
            ELSE IF e + 1 < Len(t) /\ t[e + 1] = "." /\ RunEnd(e + 2) >= e + 2
                 THEN SubSeq(t, j, RunEnd(e + 2))
                 ELSE SubSeq(t, j, e)
    IN  IF neg /\ From(i + 1) # <<>> THEN <<"-">> \o From(i + 1) ELSE From(i)

\* re.search(r'(-?\d+(?:\.\d+)?)', s): the leftmost match, then float of it
RegexNumber(t) ==
    LET starts == {i \in 1..Len(t) : MatchAt(t, i) # <<>>} IN
    IF starts = {} THEN None
    ELSE PyFloat(MatchAt(t, CHOOSE i \in starts : \A j \in starts : i <= j))

\* "(x)" becomes "-x"
Parens(t) ==
    IF Len(t) >= 1 /\ Head(t) = "(" /\ t[Len(t)] = ")"
    THEN <<"-">> \o SubSeq(t, 2, Len(t) - 1)
    ELSE t

Or(v, w) == IF v # None THEN v ELSE w

\* HandwrittenProcessor._to_float
Handwritten_to_float(t) ==
    LET a == RStrip(Strip(Remove(t, {"$", ","})), "-")
        b == Strip(LStrip(Parens(a), "+"))
    IN  Or(PyFloat(b), RegexNumber(b))

\* HandwrittenLottoEndProcessor._to_number
LottoEnd_to_number(t) ==
    LET a == Parens(RStrip(Strip(Remove(t, {"$", ","})), "-"))
    IN  Or(PyFloat(a), RegexNumber(a))

\* Day2ReportProcessor._to_float and Day3ReportProcessor._to_float
Day2_to_float(t) == PyFloat(RStrip(Strip(Remove(t, {"$", ","})), "-"))

\* BatchProcessor._to_float: "if not s: return None", and the commas go
\* after the trailing dashes
Batch_to_float(t) ==
    IF t = <<>> THEN None
    ELSE PyFloat(Remove(RStrip(Remove(t, {"$", " "}), "-"), {","}))

Normalizers == {"handwritten", "handwritten_lotto_end", "day2_report", "day3_report", "batch"}

to_float(p, t) ==
    CASE p = "handwritten" -> Handwritten_to_float(t)
      [] p = "handwritten_lotto_end" -> LottoEnd_to_number(t)
      [] p \in {"day2_report", "day3_report"} -> Day2_to_float(t)
      [] p = "batch" -> Batch_to_float(t)

InitNormalize ==
    /\ proc \in Normalizers
    /\ dry_run = FALSE
    /\ env \in Tokens
    /\ InitRun

\* the call of the normaliser on the token
Normalize ==
    /\ pc = "start"
    /\ result' = Result(TRUE, "", to_float(proc, env))
    /\ pc' = "returned"
    /\ UNCHANGED <<argVars, idx, parsed, calls, writeVars, excelVars, diskVars>>

NextNormalize == Normalize

SpecNormalize == InitNormalize /\ [][NextNormalize]_vars

(***************************************************************************)
(* Label-proximity matching: find_near of Day2ReportProcessor and          *)
(* Day3ReportProcessor, _find_label_near_number of HandwrittenProcessor.   *)
(* env[i] holds, for the i-th label of the list, the token re.search       *)
(* captures with the label-then-number pattern (p1) and with the           *)
(* number-then-label pattern (p2), None where the pattern does not match;  *)
(* idx is the label the loop is at, result.record the value returned.      *)
(***************************************************************************)
MaxLabels == 2

\* tokens the capture groups can hold: "5", "1", and one that float()
\* refuses ("- 5" for [\$\-]?\s*\d..., "," for Day3's [\d,]+)
NearTokens(p) ==
    {<<"5">>, <<"1">>, IF p = "day3_report" THEN <<",">> ELSE <<"-", " ", "5">>}

FindNearProcs == {"day2_report", "day3_report", "handwritten"}

NearMatches(p) ==
    [1..MaxLabels -> [p1 : NearTokens(p) \cup {None}, p2 : NearTokens(p) \cup {None}]]

\* a loop that tries number-then-label first
PatternSwapped(step) == IF step = "label_then_number" THEN "p2" ELSE "p1"

\* the pattern a step of the loop body searches with
PatternOf(step) == IF step = "label_then_number" THEN "p1" ELSE "p2"

\* "if m: val = self._to_float(m.group(1))"
NearValue(p, m) == IF m = None THEN None ELSE to_float(p, m)

InitFindNear ==
    /\ proc \in FindNearProcs
    /\ dry_run = FALSE
    /\ env \in NearMatches(proc)
    /\ InitRun

findNearFrame == <<argVars, parsed, calls, writeVars, excelVars, diskVars>>

\* "for label in labels": the loop is entered, or has run out of labels
NextLabel ==
    /\ pc = "start"
    /\ IF idx <= MaxLabels
       THEN pc' = "label_then_number" /\ UNCHANGED result
       ELSE pc' = "returned" /\ result' = Result(TRUE, "", None)
    /\ UNCHANGED <<findNearFrame, idx>>

\* the label-then-number search of the current label
LabelThenNumber ==
    /\ pc = "label_then_number"
    /\ LET val == NearValue(proc, env[idx][PatternOf(pc)]) IN
       IF val # None
       THEN pc' = "returned" /\ result' = Result(TRUE, "", val)
       ELSE pc' = "number_then_label" /\ UNCHANGED result
    /\ UNCHANGED <<findNearFrame, idx>>

\* the number-then-label search of the current label, and on to the next
NumberThenLabel ==
    /\ pc = "number_then_label"
    /\ LET val == NearValue(proc, env[idx][PatternOf(pc)]) IN
       IF val # None
       THEN pc' = "returned" /\ result' = Result(TRUE, "", val) /\ UNCHANGED idx
       ELSE pc' = "start" /\ idx' = idx + 1 /\ UNCHANGED result
    /\ UNCHANGED findNearFrame

NextFindNear == NextLabel \/ LabelThenNumber \/ NumberThenLabel

SpecFindNear == InitFindNear /\ [][NextFindNear]_vars

(***************************************************************************)
(* One processor run twice on the same inputs: run() returns, and the same *)
(* run() is called again on the same handlers, images and replies, as a    *)
(* second start of runner.py does.  calls and saved carry over, so that    *)
(* the second run is told from the first.                                  *)
(***************************************************************************)
InitTwice ==
    /\ proc \in Range(processors)
    /\ dry_run \in BOOLEAN
    /\ env \in RunnerEnvs(proc)
    /\ InitRun

\* the second call of run(), after a first one that reached save_report
RunAgain ==
    /\ pc = "done"
    /\ calls.load = 1
    /\ calls.save = 1
    /\ pc' = "start"
    /\ idx' = 1
    /\ parsed' = EmptyDict
    /\ assigned' = {}
    /\ UNCHANGED <<argVars, calls, saved, result, excelVars, diskVars>>

NextTwice ==
    \/ CheckImage
    \/ SkipImage
    \/ Vision
    \/ OcrFallback
    \/ NoValueReturn
    \/ DryRunReturn
    \/ LoadTemplate
    \/ WriteCells
    \/ SaveReport
    \/ RunAgain

SpecTwice == InitTwice /\ [][NextTwice]_vars

(***************************************************************************)
(* Properties of run().                                                    *)
(***************************************************************************)
\* run() has passed the extraction of every image
Extracted == pc \in {"decide", "write", "save", "done"}

\* C1: for every processor's run(), when the vision service returns an
\* error for an image, the run goes on to invoke the OCR extraction on the
\* same image before it decides its outcome.
C1_VisionErrorGoesOnToOcr ==
    pc = "done" =>
        \A img \in calls.vision : VisionFailed(env, img) => img \in calls.ocr

\* C2: for every processor's run(), whenever the vision path ends with
\* every declared field absent (the call failed, or it succeeded and its
\* reply yielded no field), OCR is invoked on the same image and parsed.
C2_NoFieldFromVisionInvokesOcr ==
    Extracted =>
        \A img \in calls.vision :
            (\A f \in FieldsOf(proc, img) : Get(Gemini(proc, env, img), f) = None)
                => img \in calls.ocr

\* C3: for every processor's run(), if the image path is unset or an image
\* the run needs (every image but the handwritten-lotto second report) is
\* not on disk, the run returns success=False with an image-missing error
\* and makes no vision, OCR, load_template or save_report call.
C3_MissingImageFailsAtOnce ==
    (/\ pc = "done"
     /\ \/ ~env.configured
        \/ \E img \in Images(proc) \ {"report2"} : img \notin env.exists)
    => /\ result.success = FALSE
       /\ result.error \in {"image missing", "others_dir missing"}
       /\ calls = [vision |-> {}, ocr |-> {}, load |-> 0, save |-> 0]

\* the value the write phase holds for field f: the record's value, and for
\* Lotto's total_cashes the derived sum when it was not supplied
WriteValue(p, d, f) ==
    IF p = "lotto" /\ f = "total_cashes" /\ Get(d, f) = None
       /\ Get(d, "drw_gm_cashes") # None /\ Get(d, "scratch_cashes") # None
    THEN Some(d["drw_gm_cashes"][1] + d["scratch_cashes"][1])
    ELSE Get(d, f)

C5_SuccessIffSaved ==
    (pc = "done" /\ calls.save > 0) => (saved # None /\ result.success = saved[1])

\* a run whose save_report returned False
C5_Witness ==
    /\ pc = "done"
    /\ calls.save > 0
    /\ saved = Some(FALSE)
    /\ result.success = FALSE

\* C6 as stated: for every processor, run(dry_run=True) returns success with
\* the extracted record and never calls load_template, assigns a cell or
\* calls save_report, whatever the extraction produced.
C6_DryRunAlwaysSucceeds ==
    (dry_run /\ pc = "done") =>
        /\ result.success
        /\ result.record = parsed
        /\ calls.load = 0 /\ calls.save = 0 /\ assigned = {}

\* the returns run() makes ahead of its dry_run test
ReturnsBeforeDryRun ==
    \/ ImageMissing(proc, env)
    \/ proc = "lotto" /\ VisionFailed(env, "image")
    \/ NoValue(proc, parsed)

\* C6: run(dry_run=True) never calls load_template, assigns a cell or calls
\* save_report and leaves the handler and the template file as they were;
\* it returns success with the extracted record unless it returned ahead of
\* the dry_run test (image missing, Lotto's vision error, Batch's value not
\* found), and then it returns success=False.
C6_DryRunNoMutation ==
    dry_run =>
        /\ calls.load = 0 /\ calls.save = 0 /\ assigned = {}
        /\ workbook = None /\ sheet = None
        /\ fileCells = [c \in Cells |-> OldVal]
        /\ pc = "done" =>
             IF ReturnsBeforeDryRun
             THEN ~result.success
             ELSE result.success /\ result.record = parsed

\* a dry run that returned success with a record holding a value
C6_Witness ==
    /\ dry_run
    /\ pc = "done"
    /\ result.success
    /\ \E f \in Fields(proc) : Get(result.record, f) # None

\* the record holds a JSON record's lotto values once extraction is over
LottoExtracted ==
    /\ pc # "start"
    /\ "image" \in env.exists /\ ~VisionFailed(env, "image") /\ "image" \in env.hasJson

\* C7: whenever drw_gm_cashes and scratch_cashes are both present and
\* total_cashes is absent, the value used for total cashes (and written to
\* Z9) is their exact sum; whenever total_cashes is supplied, 0 included,
\* the derived rule never overwrites it.
C7_DerivedTotal ==
    LottoExtracted =>
        LET drw == env.json["drw_gm_cashes"]
            scratch == env.json["scratch_cashes"]
            total == env.json["total_cashes"]
            used == IF total # None THEN total
                    ELSE IF drw # None /\ scratch # None
                         THEN Some(drw[1] + scratch[1]) ELSE None
        IN  /\ (total # None \/ (drw # None /\ scratch # None))
                => Get(parsed, "total_cashes") = used
            /\ (pc = "save" /\ used # None) => workbook[1]["Z9"] = used

\* C8: reconciliation, per field and for every declared field: when the
\* vision reply and the OCR text of the same image both give a value for a
\* field, the resolved value is the OCR value if the vision value is whole
\* and the OCR value fractional, and the vision value otherwise.
C8_ReconciledPerField ==
    (proc = "handwritten" /\ Extracted /\ "image" \in calls.vision) =>
        \A f \in Fields(proc) :
            LET pv == Get(Gemini(proc, env, "image"), f)
                ov == Get(Ocr(proc, env, "image"), f)
            IN  (pv # None /\ ov # None) => Get(parsed, f) = ReconcileField(pv, ov)

\* C9: when the vision reply holds a decodable JSON record, each field the
\* record supplies takes the record's value, and each declared field the
\* record omits or sets to null takes what label-proximity matching finds
\* for it in the same reply text.
C9_OmittedFieldsFallThrough ==
    (/\ proc \in {"day2_report", "day3_report", "handwritten"}
     /\ "image" \in calls.vision
     /\ "image" \notin calls.ocr
     /\ ~VisionFailed(env, "image")
     /\ ParseJson(proc, env, "image") # None)
    => \A f \in Fields(proc) :
           Get(parsed, f) = IF env.json[f] # None THEN env.json[f] ELSE env.prose[f]

\* C10: a declared field whose extracted value is 0 is present: the record
\* keeps it as 0, it counts as obtained when the OCR fallback is decided,
\* and it is written to its cell.
C10_ZeroIsPresent ==
    \A img \in calls.vision : \A f \in FieldsOf(proc, img) :
        (/\ ~VisionFailed(env, img)
         /\ img \in env.hasJson
         /\ env.json[f] = Some(0)
         /\ pc # "vision" \/ ImageSeq(proc)[idx] # img)
        => /\ Get(parsed, f) = Some(0)
           /\ img \notin calls.ocr
           /\ pc = "save" => \A c \in CellsOf(proc, f) : workbook[1][c] = Some(0)

\* C11: in every outcome of a run that carries a record, every field the
\* processor declares (for the images it has) is a key of the record, with
\* an explicit absent value when nothing was extracted.
C11_RecordHasEveryDeclaredKey ==
    (pc = "done" /\ result.success) =>
        \A f \in Fields(proc) :
            ImageOf(proc, f) \in env.exists => f \in DOMAIN result.record

\* C12: when the vision call fails on every image and the OCR fallback
\* yields no field either, the run returns success=False.
C12_NoFieldsIsFailure ==
    (/\ pc = "done"
     /\ calls.vision # {}
     /\ \A img \in calls.vision : VisionFailed(env, img)
     /\ \A img \in calls.vision : \A f \in FieldsOf(proc, img) :
            Get(Ocr(proc, env, img), f) = None)
    => result.success = FALSE

\* the step is a save_report call on a loaded workbook
SaveStep == pc' = "save_report" /\ idx' = idx + 1 /\ workbook # None

\* C13: save_report writes the workbook to a temporary file and renames it
\* onto the target; if os.replace raises PermissionError the workbook is
\* written to the timestamped sibling file instead, save_report returns
\* True, and the target keeps its previous content.
C13_LockedTargetSavesCopy ==
    [][SaveStep =>
         /\ (env.tmp = "ok" /\ env.rep = "ok") =>
               /\ saved' = Some(TRUE)
               /\ fileCells' = workbook[1]
               /\ tmpFile' = FALSE
         /\ (env.tmp = "ok" /\ env.rep = "perm" /\ env.fb) =>
               /\ saved' = Some(TRUE)
               /\ savedCopy' = workbook
               /\ fileCells' = fileCells]_vars

\* a save on a locked target: the copy holds the assigned cell and the
\* target does not
C13_Witness ==
    /\ pc = "save_report"
    /\ env.tmp = "ok" /\ env.rep = "perm" /\ env.fb
    /\ saved = Some(TRUE)
    /\ savedCopy # None
    /\ savedCopy[1]["L7"] = Some(525)
    /\ fileCells["L7"] = OldVal

\* C14: when the save falls back to the timestamped file because the target
\* is locked, the outcome returned to the caller (save_report's value and
\* the ProcessorResult) reports the file actually written: it is not the
\* outcome of a save onto the target.
C14_FallbackFileReported ==
    (pc = "done" /\ calls.save > 0 /\ savedCopy # None) =>
        <<saved, result>> # <<Some(TRUE), SavedResult(TRUE, parsed)>>

\* C15: save_report returns True only if the workbook was written to the
\* target or to the fallback file, and False in every other case (no
\* workbook loaded, temp save and fallback save both failing), leaving both
\* files as they were; a False makes the ProcessorResult's success False.
C15_FailureNotSwallowed ==
    [][(pc' = "save_report" /\ idx' = idx + 1) =>
         IF saved' = Some(TRUE)
         THEN /\ workbook # None
              /\ fileCells' = workbook[1] \/ savedCopy' = workbook
              /\ result'.success
         ELSE /\ saved' = Some(FALSE)
              /\ fileCells' = fileCells /\ savedCopy' = savedCopy
              /\ workbook # None => (env.tmp # "ok" \/ env.rep # "ok") /\ ~env.fb
              /\ ~result'.success]_vars

\* the temp save and the fallback save both failed on a workbook with an
\* assigned cell
C15_Witness ==
    /\ pc = "save_report"
    /\ workbook # None
    /\ workbook[1]["L7"] = Some(525)
    /\ saved = Some(FALSE)
    /\ ~result.success
    /\ fileCells["L7"] = OldVal
    /\ savedCopy = None

\* C16: with make_backup true (its default, which every processor's save
\* uses), save_report writes a timestamped backup holding the state from
\* before the cell writes, before the target workbook is overwritten.
C16_BackupBeforeOverwrite ==
    (pc = "done" /\ calls.save > 0 /\ saved = Some(TRUE) /\ savedCopy = None) =>
        backupFile = Some([c \in Cells |-> OldVal])

\* C17: a second load_template for the day already loaded yields the same
\* sheet and changes nothing: cell values assigned since the first call and
\* not yet saved are still in the workbook.
C17_LoadTemplateIdempotent ==
    [][(/\ pc' = "load_template" /\ idx' = idx + 1
        /\ sheet # None /\ sheet = current_day
        /\ current_day' = current_day /\ result'.success) =>
           sheet' = sheet /\ workbook' = workbook]_vars

\* C18: every failure of a processor's run() ends in a returned
\* ProcessorResult, never in an exception that leaves run() and so
\* main()'s loop, and main() enters the processors one after the other in
\* the configured order whatever the earlier ones returned.
C18_FailuresCapturedAllRun ==
    /\ pc # "raised"
    /\ (pc = "done" /\ Pos(proc) = Len(processors)) => result # NoResult

\* C19: with the template workbook file missing, main() stops before any
\* processor's run is entered: no vision call and no OCR is made.
C19_MissingTemplateAbortsAtStartup ==
    ~templateExists => calls.vision = {} /\ calls.ocr = {}

\* C20: generate_from_image retries only after rate-limit or quota errors:
\* an error of another kind ends the call with {"error"} after exactly one
\* model call, a run of rate-limit errors ends it with {"error"} after
\* exactly max_retries calls, the calls never exceed max_retries, and the
\* value returned is exactly one of {"text"} and {"error"}.
C20_RetriesOnlyOnRateLimit ==
    pc = "returned" =>
        LET n == Cardinality(calls.vision) IN
        /\ DOMAIN result \in {{"text"}, {"error"}}
        /\ n <= env.max_retries
        /\ \A i \in calls.vision : i < n => IsRateLimitError(env.replies[i])
        /\ (env.opens /\ env.max_retries >= 1 /\ env.replies[1] # "text"
            /\ ~IsRateLimitError(env.replies[1])) => n = 1 /\ IsErr(result)
        /\ (env.opens /\ \A i \in 1..env.max_retries : IsRateLimitError(env.replies[i]))
              => n = env.max_retries /\ IsErr(result)

\* C21: in every processor's normaliser a plain number, bare or after "$",
\* yields its value; the number in parentheses yields its negative; a
\* trailing bare minus is dropped without negating; and a token with no
\* digit yields None.
C21_NumericNormalization ==
    pc = "returned" =>
        LET Plain(t) == Unsigned(t) # None   \* digits with at most one "."
            v == result.record
            inner == SubSeq(env, 2, Len(env) - 1)
            front == SubSeq(env, 1, Len(env) - 1)
        IN  /\ Plain(env) => v = Unsigned(env)
            /\ (env # <<>> /\ Head(env) = "$" /\ Plain(Tail(env))) => v = Unsigned(Tail(env))
            /\ (Len(env) >= 3 /\ Head(env) = "(" /\ env[Len(env)] = ")" /\ Plain(inner))
                  => v = Some(0 - Unsigned(inner)[1])
            /\ (env # <<>> /\ env[Len(env)] = "-" /\ Plain(front)) => v = Unsigned(front)
            /\ (\A i \in 1..Len(env) : env[i] \notin Digits) => v = None

\* C22: label-proximity matching returns the value of the first
\* normalisable match in the order label 1 label-then-number, label 1
\* number-then-label, label 2 label-then-number, ..., and returns None
\* exactly when no search of any label captures a normalisable token.
C22_FirstMatchInPriorityOrder ==
    pc = "returned" =>
        LET \* the searches in the order of priority
            SearchOrder == [k \in 1..(2 * MaxLabels) |->
                               <<(k + 1) \div 2, IF k % 2 = 1 THEN "p1" ELSE "p2">>]
            Value(k) == NearValue(proc, env[SearchOrder[k][1]][SearchOrder[k][2]])
            \* the searches whose captured token normalises to a number
            Hits == {k \in 1..(2 * MaxLabels) : Value(k) # None}
        IN  IF Hits = {} THEN result.record = None
            ELSE result.record = Value(CHOOSE h \in Hits : \A j \in Hits : h <= j)

\* label 1 captures a token that does not normalise before the label and
\* "5" after it, label 2 captures "1": the value is 5
C22_Witness ==
    /\ pc = "returned"
    /\ proc = "day2_report"
    /\ env[1].p1 = <<"-", " ", "5">>
    /\ env[1].p2 = <<"5">>
    /\ env[2].p1 = <<"1">>
    /\ result.record = Unsigned(<<"5">>)

\* C23: when load_template fails in a run that is not a dry run, run()
\* returns success=False, has assigned no cell and never calls save_report:
\* no file is written.
C23_LoadFailureWritesNothing ==
    (/\ calls.load > 0
     /\ ~templateExists \/ current_day = None \/ current_day[1] \notin sheetnames) =>
        /\ pc = "done"
        /\ ~result.success
        /\ assigned = {}
        /\ calls.save = 0
        /\ saved = None
        /\ fileCells = [c \in Cells |-> OldVal]
        /\ tmpFile = FALSE /\ savedCopy = None /\ backupFile = None

\* a value was extracted, the file is there, and the day asked for has no
\* sheet
C23_Witness ==
    /\ pc = "done"
    /\ ~dry_run
    /\ calls.vision # {}
    /\ \E f \in Fields(proc) : Get(parsed, f) # None
    /\ calls.load = 1
    /\ templateExists
    /\ current_day = Some("18")
    /\ ~result.success

C27_NoWriteLostAcrossProcessors ==
    (/\ Pos(proc) = Len(processors) /\ pc = "done"
     /\ printed.ok /\ result.success) =>
        /\ \A c \in DOMAIN printed.cells \ assigned : fileCells[c] = printed.cells[c]
        /\ \A c \in assigned : fileCells[c] = workbook[1][c]

\* C28: whenever a processor's run returns success=False (image missing,
\* nothing extracted, template not loaded, save failed), the target
\* template file on disk is as it was before the run started.
C28_FailureLeavesTargetUntouched ==
    (pc = "done" /\ ~result.success) => fileCells = [c \in Cells |-> OldVal]

\* cells were assigned in memory and save_report returned False
C28_Witness ==
    /\ pc = "done"
    /\ ~result.success
    /\ assigned # {}
    /\ \E c \in assigned : workbook[1][c] # OldVal
    /\ saved = Some(FALSE)
    /\ fileCells = [c \in Cells |-> OldVal]

\* C29: when save_report returns, True or False and through whichever
\* path, the temporary file '.<target name>.tmp' it wrote is no longer in
\* the target directory.
C29_TempFileRemoved ==
    (pc = "save_report" /\ workbook # None) => tmpFile = FALSE

\* C30: over any sequence of load_template calls, a handler.sheet that is
\* not None is the sheet named handler.current_day of the loaded workbook;
\* after a load_template that returned False no sheet of an earlier load
\* is kept.
C30_SheetMatchesCurrentDay ==
    /\ sheet # None => sheet = current_day
    /\ (pc = "load_template" /\ ~result.success) => sheet = None

====
